---- MODULE Spec2Model ----
(***************************************************************************)
(* Model of the cascading session store of src/store.go (CascadeStore):    *)
(* the facade operations New and Save and the cascades save, load and      *)
(* delete over the three backends Request (gorilla/context, per request),  *)
(* Memcache (shared cache with native expiry) and Datastore (shared        *)
(* persistent store with an explicit ExpiresAt field).                     *)
(*                                                                         *)
(* Go's control flow is kept: every cascade runs under a deferred          *)
(* recover(), its result is the value of the NAMED result parameters when  *)
(* the function ends, and `err := ...` inside an if/defer declares a new   *)
(* variable that shadows the named result.  A cascade is a fold of steps   *)
(* over a frame: the backends, the named results, and the panic value.     *)
(***************************************************************************)
EXTENDS Integers, Sequences, FiniteSets, TLC

VARIABLES
    backendTypes,   \* cs.backendTypes, the bitmask given to NewCascadeStore
    maxLength,      \* cs.maxLength
    now,            \* time.Now(), in seconds
    request,        \* gorilla/context values of the request in progress: key -> item
    memcache,       \* shared cache: key -> item
    datastore,      \* shared datastore, kind "Session": key -> sessionKind
    cookie,         \* the identity cookie of the request in progress, <<>> when absent
    issued,         \* the IDs for which an authenticated cookie value was ever produced
    session,        \* the ID of the handler's session object, <<>> before New
    ticks,          \* how often the clock has advanced
    ret,            \* what the last facade call did and returned
    reqs            \* requests served side by side: where each one stands in
                    \* save or load, and the locals of that call

vars == <<backendTypes, maxLength, now, request, memcache, datastore,
          cookie, issued, session, ticks, ret, reqs>>

----------------------------------------------------------------------------
(* Bounds of the model *)

\* longest session payload (number of entries of the value mapping)
MaxValues == 1
\* how many times the clock advances
MaxTicks == 1
\* the small limit a store is given with SetMaxLength
SmallMaxLength == 1

----------------------------------------------------------------------------
(* Constants of store.go *)

RequestBackend == 2 ^ 0
MemcacheBackend == 2 ^ 1
DatastoreBackend == 2 ^ 2
DistributedBackends == MemcacheBackend + DatastoreBackend
AllBackends == RequestBackend + MemcacheBackend + DatastoreBackend

DefaultExpireSeconds == 86400 * 30
MaxValueLength == 4096
DefaultMaxAgeSeconds == 60 * 20
DefaultKeyPrefix == "session."

\* cs.DefaultMaxAge as NewCascadeStore sets it
DefaultMaxAge == DefaultMaxAgeSeconds

\* cs.backendTypes & b > 0
Has(bt, b) == (bt \div b) % 2 = 1

\* key := cs.keyPrefix + session.ID
Key(id) == DefaultKeyPrefix \o id

----------------------------------------------------------------------------
(* Error values *)

Nil == "nil"
ValueTooBigError == "SessionStore: the value to store is too big"
ErrCacheMiss == "memcache: cache miss"
ErrMemcache == "memcache: server error"
ErrNoSuchEntity == "datastore: no such entity"
ErrDatastore == "datastore: internal error"
ErrSerialize == "serializer: encode error"
ErrDeserialize == "serializer: decode error"
ErrTypeAssertion == "interface conversion: interface {} is *requestItem, not requestItem"
ErrDecode == "securecookie: the value is not valid"
ErrEncode == "securecookie: the value cannot be encoded"

----------------------------------------------------------------------------
(* Maps: gorilla/context, memcache and datastore are key -> value stores *)

EmptyMap == [k \in {} |-> <<>>]
Put(m, k, v) == [x \in (DOMAIN m) \cup {k} |-> IF x = k THEN v ELSE m[x]]
Del(m, k) == [x \in (DOMAIN m) \ {k} |-> m[x]]

----------------------------------------------------------------------------
(* Sessions, payloads and the collaborators of the store *)

\* The model follows one session: every backend call of the store is made
\* under cs.keyPrefix + session.ID, so sessions with other IDs never meet.
\* IDs holds what the random generator of Save yields for it.
IDs == {"S1"}

Items == {1}
RECURSIVE SeqsUpTo(_)
SeqsUpTo(n) == IF n = 0 THEN {<<>>}
               ELSE SeqsUpTo(n - 1) \cup {Append(s, x) : s \in {q \in SeqsUpTo(n - 1) : Len(q) = n - 1}, x \in Items}
\* the value mappings a handler can put in a session
Payloads == SeqsUpTo(MaxValues)

\* SessionSerializer.Serialize: a length header followed by the entries
Serialize(values) == <<Len(values)>> \o values
\* SessionSerializer.Deserialize: fails on bytes that are no encoding
CanDeserialize(bytes) == Len(bytes) >= 1 /\ bytes[1] = Len(bytes) - 1
Deserialize(bytes) == Tail(bytes)

\* securecookie.EncodeMulti / DecodeMulti: an authenticated encoding of the ID
EncodeMulti(id) == [mac |-> TRUE, id |-> id]
CanDecodeMulti(value) == value.mac
DecodeMulti(value) == value.id
\* a cookie value no codec of the store authenticates
Tampered == [mac |-> FALSE, id |-> "S1"]

\* sessions.NewSession plus the option copy of New
NewSession == [ID |-> "", Values |-> <<>>, MaxAge |-> DefaultExpireSeconds, IsNew |-> TRUE]

\* The sessions handlers save: a handler that stores nothing leaves the session
\* to the store's default age (MaxAge 0), one that stores values keeps the
\* cookie default of New, and any of them may log out (MaxAge -1).
MaxAges == {-1, 0, DefaultExpireSeconds}
Edits == {e \in [Values : Payloads, MaxAge : MaxAges] :
             e.MaxAge >= 0 => ((e.MaxAge = 0) <=> (e.Values = <<>>))}

----------------------------------------------------------------------------
(* Frames: the state a cascade works on.                                   *)
(*   err    the named result `err`                                         *)
(*   panic  the value the function is panicking with, Nil when running     *)
(*   calls  the backend calls made so far, in order, with their outcome    *)

Frame(rq, mc, ds) ==
    [request |-> rq, memcache |-> mc, datastore |-> ds,
     err |-> Nil, panic |-> Nil, calls |-> <<>>,
     value |-> <<>>, success |-> FALSE, values |-> <<>>]

Call(fr, name, res) == [fr EXCEPT !.calls = Append(@, <<name, res>>)]
Panic(fr, e) == [fr EXCEPT !.panic = e]

\* The deferred function of save, load and delete: recover() stops the panic,
\* `err := r.(error)` declares a new variable, so the named result keeps the
\* value it had when the panic started.  Without a panic the function has run
\* its `return ..., nil`, which sets the named result to nil.
recover(fr) == IF fr.panic = Nil THEN [fr EXCEPT !.err = Nil] ELSE fr

----------------------------------------------------------------------------
(* save: lines 194-263 *)

\* effective age and the two expiry forms derived from it
\* Age that is the store default whatever the session asks for
Age_AlwaysDefault(sess) == DefaultMaxAge

\* Age without the store default
Age_NoDefault(sess) == sess.MaxAge

Age(sess) == IF sess.MaxAge = 0 THEN DefaultMaxAge ELSE sess.MaxAge

\* saveSerialize without the size check
saveSerialize_NoLimit(fr, sess, maxLen, flt) ==
    IF flt.ser
    THEN Panic([fr EXCEPT !.err = ErrSerialize], ErrSerialize)
    ELSE fr

\* Serialize and the size check; `serialized, err = ...` assigns the named err
saveSerialize(fr, sess, maxLen, flt) ==
    IF flt.ser
    THEN Panic([fr EXCEPT !.err = ErrSerialize], ErrSerialize)
    ELSE IF maxLen # 0 /\ Len(Serialize(sess.Values)) > maxLen
         THEN Panic(fr, ValueTooBigError)
         ELSE fr

\* gcontext.Set(r, key, item) with item a *requestItem (a pointer)
saveRequest(fr, key, serialized, expiresAt, bt) ==
    IF fr.panic = Nil /\ Has(bt, RequestBackend)
    THEN Call([fr EXCEPT !.request =
                  Put(@, key, [dyn |-> "*requestItem", Value |-> serialized,
                               ExpiresAt |-> expiresAt])],
              "gcontext.Set", "ok")
    ELSE fr

\* saveMemcache with memcache.Add: an item the cache holds is left as it is
saveMemcache_Add(fr, key, serialized, expires, t, bt, flt) ==
    IF fr.panic = Nil /\ Has(bt, MemcacheBackend)
    THEN IF flt.mcSet
         THEN Panic(Call(fr, "memcache.Set", "err"), ErrMemcache)
         ELSE IF key \in DOMAIN fr.memcache
              THEN Call(fr, "memcache.Set", "ok")
              ELSE Call([fr EXCEPT !.memcache =
                            Put(@, key, [Value |-> serialized,
                                         Deadline |-> t + expires])],
                        "memcache.Set", "ok")
    ELSE fr

\* memcache.Set with Expiration: expires; the cache drops the item after it
saveMemcache(fr, key, serialized, expires, t, bt, flt) ==
    IF fr.panic = Nil /\ Has(bt, MemcacheBackend)
    THEN IF flt.mcSet
         THEN Panic(Call(fr, "memcache.Set", "err"), ErrMemcache)
         ELSE Call([fr EXCEPT !.memcache =
                       Put(@, key, [Value |-> serialized, Deadline |-> t + expires])],
                   "memcache.Set", "ok")
    ELSE fr

\* saveDatastore reached although an earlier tier write failed
saveDatastore_NoAbort(fr, key, serialized, expiresAt, bt, flt) ==
    IF fr.panic \in {Nil, ErrMemcache} /\ Has(bt, DatastoreBackend)
    THEN IF flt.dsPut
         THEN Panic(Call(fr, "datastore.Put", "err"), ErrDatastore)
         ELSE Call([fr EXCEPT !.datastore =
                       Put(@, key, [Value |-> serialized, ExpiresAt |-> expiresAt])],
                   "datastore.Put", "ok")
    ELSE fr

\* datastore.Put of a sessionKind
saveDatastore(fr, key, serialized, expiresAt, bt, flt) ==
    IF fr.panic = Nil /\ Has(bt, DatastoreBackend)
    THEN IF flt.dsPut
         THEN Panic(Call(fr, "datastore.Put", "err"), ErrDatastore)
         ELSE Call([fr EXCEPT !.datastore =
                       Put(@, key, [Value |-> serialized, ExpiresAt |-> expiresAt])],
                   "datastore.Put", "ok")
    ELSE fr

save(rq, mc, ds, sess, bt, maxLen, t, flt) ==
    LET key == Key(sess.ID)
        serialized == Serialize(sess.Values)
        expires == Age(sess)
        expiresAt == t + expires
        f1 == saveSerialize(Frame(rq, mc, ds), sess, maxLen, flt)
        f2 == saveRequest(f1, key, serialized, expiresAt, bt)
        f3 == saveMemcache(f2, key, serialized, expires, t, bt, flt)
        f4 == saveDatastore(f3, key, serialized, expiresAt, bt, flt)
    IN  recover(f4)

----------------------------------------------------------------------------
(* delete: lines 349-390 *)

\* gcontext.Delete(r, key)
deleteRequest(fr, key, bt) ==
    IF Has(bt, RequestBackend)
    THEN Call([fr EXCEPT !.request = Del(@, key)], "gcontext.Delete", "ok")
    ELSE fr

\* memcache.Delete: a cache miss is logged, any other error panics
deleteMemcache(fr, key, bt, flt) ==
    IF fr.panic = Nil /\ Has(bt, MemcacheBackend)
    THEN IF flt.mcDel
         THEN Panic(Call(fr, "memcache.Delete", "err"), ErrMemcache)
         ELSE IF key \notin DOMAIN fr.memcache
              THEN Call(fr, "memcache.Delete", "miss")
              ELSE Call([fr EXCEPT !.memcache = Del(@, key)], "memcache.Delete", "ok")
    ELSE fr

\* datastore.Delete: every error is logged and dropped
deleteDatastore(fr, key, bt, flt) ==
    IF fr.panic = Nil /\ Has(bt, DatastoreBackend)
    THEN IF flt.dsDel
         THEN Call(fr, "datastore.Delete", "err")
         ELSE Call([fr EXCEPT !.datastore = Del(@, key)], "datastore.Delete", "ok")
    ELSE fr

\* delete works on the caller's backends and reports its own calls
delete(rq, mc, ds, sess, bt, flt) ==
    LET key == Key(sess.ID)
        f1 == deleteRequest(Frame(rq, mc, ds), key, bt)
        f2 == deleteMemcache(f1, key, bt, flt)
        f3 == deleteDatastore(f2, key, bt, flt)
    IN  recover(f3)

----------------------------------------------------------------------------
(* load: lines 267-346 *)

\* itemRaw.(requestItem): the single-value type assertion panics unless the
\* stored value has exactly the dynamic type requestItem
AssertRequestItem(itemRaw) == itemRaw.dyn = "requestItem"

\* Try request
loadRequest(fr, key, t, bt) ==
    IF fr.value = <<>> /\ Has(bt, RequestBackend)
    THEN IF key \notin DOMAIN fr.request
         THEN Call(fr, "gcontext.Get", "miss")
         ELSE IF ~AssertRequestItem(fr.request[key])
              THEN Panic(Call(fr, "gcontext.Get", "ok"), ErrTypeAssertion)
              ELSE IF t < fr.request[key].ExpiresAt
                   THEN Call([fr EXCEPT !.value = fr.request[key].Value],
                             "gcontext.Get", "ok")
                   ELSE Call(Call([fr EXCEPT !.request = Del(@, key)],
                                  "gcontext.Get", "ok"),
                             "gcontext.Delete", "ok")
    ELSE fr

\* Try memcache; `item, err = memcache.Get(...)` assigns the named err
loadMemcache(fr, key, bt, flt) ==
    IF fr.panic = Nil /\ fr.value = <<>> /\ Has(bt, MemcacheBackend)
    THEN IF flt.mcGet
         THEN Panic(Call([fr EXCEPT !.err = ErrMemcache], "memcache.Get", "err"),
                    ErrMemcache)
         ELSE IF key \notin DOMAIN fr.memcache
              THEN Call([fr EXCEPT !.err = ErrCacheMiss], "memcache.Get", "miss")
              ELSE Call([fr EXCEPT !.err = Nil, !.value = fr.memcache[key].Value],
                        "memcache.Get", "ok")
    ELSE fr

\* loadDatastore that takes an expired entity for a missing one
loadDatastore_NoCleanup(fr, key, sess, t, bt, flt) ==
    IF fr.panic = Nil /\ fr.value = <<>> /\ Has(bt, DatastoreBackend)
    THEN IF flt.dsGet
         THEN Panic(Call(fr, "datastore.Get", "err"), ErrDatastore)
         ELSE IF key \notin DOMAIN fr.datastore
              THEN Call(fr, "datastore.Get", "miss")
              ELSE IF t < fr.datastore[key].ExpiresAt
                   THEN Call([fr EXCEPT !.value = fr.datastore[key].Value],
                             "datastore.Get", "ok")
                   ELSE Call(fr, "datastore.Get", "ok")
    ELSE fr

\* datastore.Get and the expiry test; `err := datastore.Get(...)` is a new
\* variable.  An expired entity leaves value nil.
loadDatastoreGet(fr, key, t, bt, flt) ==
    IF fr.panic = Nil /\ fr.value = <<>> /\ Has(bt, DatastoreBackend)
    THEN IF flt.dsGet
         THEN Panic(Call(fr, "datastore.Get", "err"), ErrDatastore)
         ELSE IF key \notin DOMAIN fr.datastore
              THEN Call(fr, "datastore.Get", "miss")
              ELSE IF t < fr.datastore[key].ExpiresAt
                   THEN Call([fr EXCEPT !.value = fr.datastore[key].Value],
                             "datastore.Get", "ok")
                   ELSE Call(fr, "datastore.Get", "ok")
    ELSE fr

\* the read of loadDatastoreGet found an entity that had expired
foundExpired(fr, key, t, bt, flt) ==
    /\ fr.panic = Nil /\ fr.value = <<>> /\ Has(bt, DatastoreBackend)
    /\ ~flt.dsGet
    /\ key \in DOMAIN fr.datastore
    /\ ~(t < fr.datastore[key].ExpiresAt)

\* the delete cascade load starts for an expired entity; `err := cs.delete(...)`
\* is a new variable
loadCleanup(g, sess, bt, flt) ==
    LET d == delete(g.request, g.memcache, g.datastore, sess, bt, flt)
        h == [g EXCEPT !.request = d.request,
                       !.memcache = d.memcache,
                       !.datastore = d.datastore,
                       !.calls = @ \o d.calls]
    IN  IF d.err # Nil THEN Panic(h, d.err) ELSE h

\* loadDatastore that reads the Datastore whatever the tiers before it gave
loadDatastore_AlwaysRead(fr, key, sess, t, bt, flt) ==
    IF Has(bt, DatastoreBackend)
    THEN LET g == loadDatastoreGet([fr EXCEPT !.panic = Nil, !.value = <<>>],
                                   key, t, bt, flt)
         IN  [g EXCEPT !.panic = IF fr.panic # Nil THEN fr.panic ELSE @,
                       !.value = IF fr.value # <<>> THEN fr.value ELSE @]
    ELSE fr

\* Try datastore: the read, then the delete cascade when the entity had expired
loadDatastore(fr, key, sess, t, bt, flt) ==
    IF foundExpired(fr, key, t, bt, flt)
    THEN loadCleanup(loadDatastoreGet(fr, key, t, bt, flt), sess, bt, flt)
    ELSE loadDatastoreGet(fr, key, t, bt, flt)

\* Deserialize into the session and report success; `err := Deserialize(...)`
\* is a new variable.  Deserialize fails on bytes it cannot read and when the
\* serializer in use cannot decode what another one wrote (flt.des).
loadDeserialize(fr, flt) ==
    IF fr.panic = Nil /\ fr.value # <<>>
    THEN IF flt.des \/ ~CanDeserialize(fr.value)
         THEN Panic(fr, ErrDeserialize)
         ELSE [fr EXCEPT !.values = Deserialize(fr.value), !.success = TRUE]
    ELSE fr

load(rq, mc, ds, sess, bt, t, flt) ==
    LET key == Key(sess.ID)
        f1 == loadRequest(Frame(rq, mc, ds), key, t, bt)
        f2 == loadMemcache(f1, key, bt, flt)
        f3 == loadDatastore(f2, key, sess, t, bt, flt)
        f4 == loadDeserialize(f3, flt)
    IN  recover(f4)

----------------------------------------------------------------------------
(* The state machine *)

NoFaults == [ser |-> FALSE, enc |-> FALSE, mcSet |-> FALSE, dsPut |-> FALSE,
             mcGet |-> FALSE, dsGet |-> FALSE, mcDel |-> FALSE, dsDel |-> FALSE,
             des |-> FALSE]
\* One failure per call: a cascade stops at its first failure, so a second
\* one cannot show.  A backend that is not enabled is not called.
Faults(names) ==
    {NoFaults} \cup
    {[n \in DOMAIN NoFaults |-> n = f] :
        f \in {n \in names :
                 /\ n \in {"mcSet", "mcGet", "mcDel"} => Has(backendTypes, MemcacheBackend)
                 /\ n \in {"dsPut", "dsGet", "dsDel"} => Has(backendTypes, DatastoreBackend)}}
SaveFaults == Faults({"ser", "enc", "mcSet", "dsPut"})
DeleteFaults == Faults({"mcDel", "dsDel"})
LoadFaults == Faults({"mcGet", "dsGet", "mcDel", "dsDel", "des"})

\* the steps of the clock
TickSteps == {DefaultMaxAgeSeconds}

\* cookie: the cookie the call set on the response, <<>> when it set none
RetNone == [op |-> "none", id |-> "", err |-> Nil, cerr |-> Nil, panic |-> Nil,
            ok |-> FALSE, isNew |-> FALSE, values |-> <<>>, maxAge |-> 0,
            calls |-> <<>>, cookie |-> <<>>]

\* the requests that run side by side, and a request that runs no call
Requests == {"r1", "r2"}
Idle == [pc |-> "idle", op |-> "none", sess |-> NewSession, t |-> 0,
         fr |-> Frame(EmptyMap, EmptyMap, EmptyMap)]

\* NewCascadeStore, then SetMaxLength
Init ==
    /\ backendTypes \in 0..AllBackends
    /\ maxLength \in {0, SmallMaxLength, MaxValueLength}
    /\ now = 0
    /\ request = EmptyMap
    /\ memcache = EmptyMap
    /\ datastore = EmptyMap
    /\ cookie = <<>>
    /\ issued = {}
    /\ session = <<>>
    /\ ticks = 0
    /\ ret = RetNone
    /\ reqs = [p \in Requests |-> Idle]

\* IsNew that looks at load's error alone
IsNew_ErrOnly(err, ok) == err # Nil

\* session.IsNew = !(err == nil && ok)
IsNew(err, ok) == ~(err = Nil /\ ok)

\* New: lines 145-162.  `ok, err := cs.load(...)` declares a new err, so New
\* returns the error of DecodeMulti alone.
New(flt) ==
    LET decoded == cookie # <<>> /\ CanDecodeMulti(cookie[1])
        s0 == IF decoded THEN [NewSession EXCEPT !.ID = DecodeMulti(cookie[1])]
                         ELSE NewSession
        l == load(request, memcache, datastore, s0, backendTypes, now, flt)
        err == IF cookie # <<>> /\ ~decoded THEN ErrDecode ELSE Nil
    IN  /\ session' = <<s0.ID>>
        /\ IF decoded
           THEN /\ request' = l.request
                /\ memcache' = l.memcache
                /\ datastore' = l.datastore
                /\ ret' = [RetNone EXCEPT !.op = "New", !.id = s0.ID, !.err = err,
                                          !.cerr = l.err, !.panic = l.panic,
                                          !.ok = l.success, !.values = l.values,
                                          !.isNew = IsNew(l.err, l.success),
                                          !.maxAge = s0.MaxAge, !.calls = l.calls]
           ELSE /\ flt = NoFaults
                /\ UNCHANGED <<request, memcache, datastore>>
                /\ ret' = [RetNone EXCEPT !.op = "New", !.err = err, !.isNew = TRUE,
                                          !.maxAge = s0.MaxAge]
        /\ UNCHANGED <<backendTypes, maxLength, now, cookie, issued, ticks>>

\* SaveDelete that leaves the cookie alone when the cascade met a failure
SaveDelete_FailureKeepsCookie(sess, flt) ==
    LET d == delete(request, memcache, datastore, sess, backendTypes, flt)
    IN  /\ flt \in DeleteFaults
        /\ request' = d.request
        /\ memcache' = d.memcache
        /\ datastore' = d.datastore
        /\ ret' = [RetNone EXCEPT !.op = "Save", !.id = sess.ID, !.err = d.panic,
                                  !.cerr = d.panic, !.panic = d.panic,
                                  !.values = sess.Values, !.maxAge = sess.MaxAge,
                                  !.calls = d.calls,
                                  !.cookie = IF d.panic # Nil THEN <<>>
                                             ELSE <<[Value |-> "", MaxAge |-> sess.MaxAge]>>]
        /\ UNCHANGED <<session, issued>>

\* Save, marked for deletion: lines 167-172
SaveDelete(sess, flt) ==
    LET d == delete(request, memcache, datastore, sess, backendTypes, flt)
    IN  /\ flt \in DeleteFaults
        /\ request' = d.request
        /\ memcache' = d.memcache
        /\ datastore' = d.datastore
        /\ ret' = [RetNone EXCEPT !.op = "Save", !.id = sess.ID, !.err = d.err,
                                  !.cerr = d.err, !.panic = d.panic,
                                  !.values = sess.Values, !.maxAge = sess.MaxAge,
                                  !.calls = d.calls,
                                  !.cookie = IF d.err # Nil THEN <<>>
                                             ELSE <<[Value |-> "", MaxAge |-> sess.MaxAge]>>]
        /\ UNCHANGED <<session, issued>>

\* Save, storing: lines 173-190.  id is the key the random generator yields.
SaveStore(sess, id, flt) ==
    LET s1 == IF sess.ID = "" THEN [sess EXCEPT !.ID = id] ELSE sess
        w == save(request, memcache, datastore, s1, backendTypes, maxLength, now, flt)
        err == IF w.err # Nil THEN w.err ELSE IF flt.enc THEN ErrEncode ELSE Nil
    IN  /\ flt \in SaveFaults
        /\ id \in IDs
        /\ sess.ID # "" => id = sess.ID
        /\ request' = w.request
        /\ memcache' = w.memcache
        /\ datastore' = w.datastore
        /\ session' = <<s1.ID>>
        /\ issued' = IF err # Nil THEN issued ELSE issued \cup {s1.ID}
        /\ ret' = [RetNone EXCEPT !.op = "Save", !.id = s1.ID, !.err = err,
                                  !.cerr = w.err, !.panic = w.panic,
                                  !.values = s1.Values, !.maxAge = s1.MaxAge,
                                  !.calls = w.calls,
                                  !.cookie = IF err # Nil THEN <<>>
                                             ELSE <<[Value |-> EncodeMulti(s1.ID),
                                                     MaxAge |-> s1.MaxAge]>>]

\* Save: lines 165-191, of the session New returned, with the values and the
\* max-age e the handler gave it
Save(e, id, flt) ==
    /\ session # <<>>
    /\ LET sess == [NewSession EXCEPT !.ID = session[1], !.Values = e.Values,
                                      !.MaxAge = e.MaxAge]
       IN  IF sess.MaxAge < 0
           THEN /\ id = sess.ID
                /\ SaveDelete(sess, flt)
           ELSE SaveStore(sess, id, flt)
    /\ UNCHANGED <<backendTypes, maxLength, now, cookie, ticks>>

\* the request ends and the next one arrives with cookie c; the values that
\* gorilla/context held for the finished request are gone
BeginRequest(c) ==
    /\ cookie' = c
    /\ request' = EmptyMap
    /\ session' = <<>>
    /\ ret' = RetNone
    /\ UNCHANGED <<backendTypes, maxLength, now, memcache, datastore, issued, ticks>>

\* time passes; memcache drops the items whose Expiration has run out
Tick(d) ==
    /\ ticks < MaxTicks
    /\ ticks' = ticks + 1
    /\ now' = now + d
    /\ memcache' = [k \in {x \in DOMAIN memcache : memcache[x].Deadline > now + d}
                      |-> memcache[k]]
    /\ ret' = RetNone
    /\ UNCHANGED <<backendTypes, maxLength, request, datastore, cookie, issued, session>>

Cookies == {<<>>, <<Tampered>>} \cup {<<EncodeMulti(id)>> : id \in issued}

Next ==
    \/ \E flt \in LoadFaults : New(flt) /\ UNCHANGED reqs
    \/ \E e \in Edits, id \in IDs \cup {""}, flt \in SaveFaults \cup DeleteFaults :
          Save(e, id, flt) /\ UNCHANGED reqs
    \/ \E c \in Cookies : BeginRequest(c) /\ UNCHANGED reqs
    \/ \E d \in TickSteps : Tick(d) /\ UNCHANGED reqs

Spec == Init /\ [][Next]_vars

----------------------------------------------------------------------------
(* Requests side by side.  The store takes no lock (it has no mutex and uses
   no transaction), so the backend calls of save and load of two requests
   interleave freely; each backend call is one step.  The Request tier
   belongs to one request and takes no part; the backends do not fail. *)

\* the frame of request p: its locals, on the shared tiers as they are now
FrameOf(p) == [reqs[p].fr EXCEPT !.memcache = memcache, !.datastore = datastore]
\* the locals of a frame
Local(fr) == [fr EXCEPT !.request = EmptyMap, !.memcache = EmptyMap,
                        !.datastore = EmptyMap]
Goto(p, pc, fr) == reqs' = [reqs EXCEPT ![p].pc = pc, ![p].fr = Local(fr)]

\* save, up to the first backend call: lines 194-221
StartSave(p, e, id) ==
    /\ reqs[p].pc = "idle"
    /\ e.MaxAge >= 0
    /\ LET sess == [NewSession EXCEPT !.ID = id, !.Values = e.Values,
                                      !.MaxAge = e.MaxAge]
           fr == saveSerialize(Frame(EmptyMap, memcache, datastore), sess,
                               maxLength, NoFaults)
       IN  reqs' = [reqs EXCEPT ![p] = [pc |-> "save.memcache", op |-> "save",
                                        sess |-> sess, t |-> now,
                                        fr |-> Local(fr)]]
    /\ UNCHANGED <<backendTypes, maxLength, now, request, memcache, datastore,
                   cookie, issued, session, ticks, ret>>

\* memcache.Set: lines 234-246; the item runs out Expiration after the Set
SaveMemcache(p) ==
    /\ reqs[p].pc = "save.memcache"
    /\ LET sess == reqs[p].sess
           fr == saveMemcache(FrameOf(p), Key(sess.ID), Serialize(sess.Values),
                              Age(sess), now, backendTypes, NoFaults)
       IN  /\ memcache' = fr.memcache
           /\ Goto(p, "save.datastore", fr)
    /\ UNCHANGED <<backendTypes, maxLength, now, request, datastore,
                   cookie, issued, session, ticks, ret>>

\* datastore.Put with the expiresAt computed at line 221, and the return:
\* lines 248-263
SaveDatastore(p) ==
    /\ reqs[p].pc = "save.datastore"
    /\ LET sess == reqs[p].sess
           fr == saveDatastore(FrameOf(p), Key(sess.ID), Serialize(sess.Values),
                               reqs[p].t + Age(sess), backendTypes, NoFaults)
       IN  /\ datastore' = fr.datastore
           /\ Goto(p, "done", recover(fr))
    /\ UNCHANGED <<backendTypes, maxLength, now, request, memcache,
                   cookie, issued, session, ticks, ret>>

\* load, up to the first backend call: lines 267-283
StartLoad(p, id) ==
    /\ reqs[p].pc = "idle"
    /\ reqs' = [reqs EXCEPT ![p] = [pc |-> "load.memcache", op |-> "load",
                                     sess |-> [NewSession EXCEPT !.ID = id],
                                     t |-> now,
                                     fr |-> Frame(EmptyMap, EmptyMap, EmptyMap)]]
    /\ UNCHANGED <<backendTypes, maxLength, now, request, memcache, datastore,
                   cookie, issued, session, ticks, ret>>

\* memcache.Get: lines 300-314
LoadMemcache(p) ==
    /\ reqs[p].pc = "load.memcache"
    /\ Goto(p, "load.datastore",
            loadMemcache(FrameOf(p), Key(reqs[p].sess.ID), backendTypes, NoFaults))
    /\ UNCHANGED <<backendTypes, maxLength, now, request, memcache, datastore,
                   cookie, issued, session, ticks, ret>>

\* datastore.Get and the expiry test against the now of line 283: lines
\* 316-330.  An expired entity sends the request into cs.delete; otherwise
\* load deserializes what it has and returns.
LoadDatastore(p) ==
    /\ reqs[p].pc = "load.datastore"
    /\ LET key == Key(reqs[p].sess.ID)
           g == loadDatastoreGet(FrameOf(p), key, reqs[p].t, backendTypes, NoFaults)
       IN  IF foundExpired(FrameOf(p), key, reqs[p].t, backendTypes, NoFaults)
           THEN Goto(p, "delete.memcache", g)
           ELSE Goto(p, "done", recover(loadDeserialize(g, NoFaults)))
    /\ UNCHANGED <<backendTypes, maxLength, now, request, memcache, datastore,
                   cookie, issued, session, ticks, ret>>

\* memcache.Delete of the delete load called: lines 368-378
CleanupMemcache(p) ==
    /\ reqs[p].pc = "delete.memcache"
    /\ LET fr == deleteMemcache(FrameOf(p), Key(reqs[p].sess.ID), backendTypes,
                                NoFaults)
       IN  /\ memcache' = fr.memcache
           /\ Goto(p, "delete.datastore", fr)
    /\ UNCHANGED <<backendTypes, maxLength, now, request, datastore,
                   cookie, issued, session, ticks, ret>>

\* datastore.Delete of the delete load called, and load's return: lines
\* 380-389, 337-345
CleanupDatastore(p) ==
    /\ reqs[p].pc = "delete.datastore"
    /\ LET fr == deleteDatastore(FrameOf(p), Key(reqs[p].sess.ID), backendTypes,
                                 NoFaults)
       IN  /\ datastore' = fr.datastore
           /\ Goto(p, "done", recover(loadDeserialize(fr, NoFaults)))
    /\ UNCHANGED <<backendTypes, maxLength, now, request, memcache,
                   cookie, issued, session, ticks, ret>>

\* the handler of request p is through
Finish(p) ==
    /\ reqs[p].pc = "done"
    /\ reqs' = [reqs EXCEPT ![p] = Idle]
    /\ UNCHANGED <<backendTypes, maxLength, now, request, memcache, datastore,
                   cookie, issued, session, ticks, ret>>

\* a store of the shared tiers, with the size limit NewCascadeStore gives it
InitConc ==
    /\ Init
    /\ backendTypes \in {MemcacheBackend, DatastoreBackend, DistributedBackends}
    /\ maxLength = MaxValueLength

NextConc ==
    \/ \E p \in Requests, e \in Edits, id \in IDs : StartSave(p, e, id)
    \/ \E p \in Requests : SaveMemcache(p)
    \/ \E p \in Requests : SaveDatastore(p)
    \/ \E p \in Requests, id \in IDs : StartLoad(p, id)
    \/ \E p \in Requests : LoadMemcache(p)
    \/ \E p \in Requests : LoadDatastore(p)
    \/ \E p \in Requests : CleanupMemcache(p)
    \/ \E p \in Requests : CleanupDatastore(p)
    \/ \E p \in Requests : Finish(p)
    \/ \E d \in TickSteps : Tick(d) /\ UNCHANGED reqs

SpecConc == InitConc /\ [][NextConc]_vars

----------------------------------------------------------------------------
(* Vocabulary of the properties *)

\* the backends of the store (Ephemeral, Volatile, Durable)
tiers == <<request, memcache, datastore>>

\* the last call was a Save that ran the save cascade / the delete cascade
SavedNow == ret.op = "Save" /\ ret.maxAge >= 0
LoggedOutNow == ret.op = "Save" /\ ret.maxAge < 0
\* the last call was a New that ran load
LoadedNow == ret.op = "New" /\ ret.id # ""

\* a backend call of the last cascade, with its outcome
Made(name, res) == \E i \in 1..Len(ret.calls) : ret.calls[i] = <<name, res>>
Failed(name) == Made(name, "err")
AnyFailed == \E i \in 1..Len(ret.calls) : ret.calls[i][2] = "err"

\* the serialized session of the last Save is longer than a non-zero max length
TooBig == maxLength # 0 /\ Len(Serialize(ret.values)) > maxLength

\* the records the last Save had to write
SavedAge == IF ret.maxAge = 0 THEN DefaultMaxAgeSeconds ELSE ret.maxAge
SavedRecord == [Value |-> Serialize(ret.values), ExpiresAt |-> now + SavedAge]
Holds(tier, id, rec) ==
    /\ Key(id) \in DOMAIN tier
    /\ tier[Key(id)].Value = rec.Value
    /\ IF "Deadline" \in DOMAIN tier[Key(id)]
       THEN tier[Key(id)].Deadline = rec.ExpiresAt
       ELSE tier[Key(id)].ExpiresAt = rec.ExpiresAt

----------------------------------------------------------------------------
(* C1 *)

\* C1: round trip.  For every non-empty set of enabled tiers, when a save of a
\* session that fits the max length met no failure and the next call of the
\* same request loads the same ID without a backend failure, load reports
\* found and restores the value mapping that was saved.
C1_RoundTrip ==
    [][ ( /\ backendTypes # 0
          /\ SavedNow /\ ret.panic = Nil /\ ~TooBig
          /\ ret'.op = "New" /\ ret'.id = ret.id
          /\ \A i \in 1..Len(ret'.calls) : ret'.calls[i][2] # "err" )
        => (ret'.ok /\ ret'.values = ret.values) ]_vars

----------------------------------------------------------------------------
(* C2 *)

\* C2: a save of a session whose serialized form is longer than a non-zero
\* max length makes no backend call and leaves the Request, Memcache and
\* Datastore contents exactly as they were, for every set of enabled tiers.
C2_TooBigWritesNothing ==
    [][ (ret'.op = "Save" /\ ret'.maxAge >= 0
         /\ maxLength # 0 /\ Len(Serialize(ret'.values)) > maxLength)
        => (ret'.calls = <<>> /\ UNCHANGED tiers) ]_vars

\* a too big save on a store with all tiers, the Datastore holding a record
C2_Witness ==
    /\ SavedNow /\ TooBig /\ ret.panic = ValueTooBigError
    /\ backendTypes = AllBackends
    /\ Key(ret.id) \in DOMAIN datastore

----------------------------------------------------------------------------
(* C3 *)

\* C3: a save of a session whose serialized form is longer than a non-zero
\* max length returns a non-nil error (ValueTooBigError) to its caller.
C3_TooBigReported ==
    (SavedNow /\ TooBig) => ret.cerr # Nil

----------------------------------------------------------------------------
(* C4 *)

\* C4: when a tier write fails in save, it is the last backend call of that
\* save (no later tier is written, the Datastore is unchanged by a failing
\* Memcache write) and every enabled tier before it holds the new record.
C4_AbortNoRollback ==
    [][ (ret'.op = "Save" /\ ret'.maxAge >= 0
         /\ \E i \in 1..Len(ret'.calls) : ret'.calls[i][2] = "err")
        => LET calls == ret'.calls
               rec == [Value |-> Serialize(ret'.values),
                       ExpiresAt |-> now + (IF ret'.maxAge = 0 THEN DefaultMaxAgeSeconds
                                                               ELSE ret'.maxAge)]
           IN  /\ calls[Len(calls)][2] = "err"
               /\ \A i \in 1..(Len(calls) - 1) : calls[i][2] = "ok"
               /\ Has(backendTypes, RequestBackend) => Holds(request', ret'.id, rec)
               /\ calls[Len(calls)][1] = "memcache.Set" =>
                     /\ datastore' = datastore
                     /\ \A i \in 1..Len(calls) : calls[i][1] # "datastore.Put"
               /\ (calls[Len(calls)][1] = "datastore.Put"
                   /\ Has(backendTypes, MemcacheBackend)) => Holds(memcache', ret'.id, rec)
      ]_vars

\* a failing Memcache write on a store with all tiers: the Request tier holds
\* the new record, the Datastore still holds an older one
C4_Witness ==
    /\ SavedNow /\ Failed("memcache.Set")
    /\ backendTypes = AllBackends
    /\ Holds(request, ret.id, SavedRecord)
    /\ Key(ret.id) \in DOMAIN datastore
    /\ ~Holds(datastore, ret.id, SavedRecord)

----------------------------------------------------------------------------
(* C5 *)

\* C5: whenever the Memcache or the Datastore write reports an error during
\* save, save returns a non-nil error.
C5_SaveSurfacesFailure ==
    (SavedNow /\ (Failed("memcache.Set") \/ Failed("datastore.Put"))) => ret.cerr # Nil

----------------------------------------------------------------------------
(* C6 *)

\* C6: when the save cascade of a Save with non-negative max-age fails (too
\* big, or a Memcache or Datastore write error), Save returns an error and
\* sets no cookie; a cookie is set only when every enabled tier was written.
C6_FailedSaveNoCookie ==
    SavedNow =>
        /\ (ret.panic \in {ValueTooBigError, ErrMemcache, ErrDatastore})
              => (ret.err # Nil /\ ret.cookie = <<>>)
        /\ ret.cookie # <<>> =>
              /\ Has(backendTypes, RequestBackend) => Made("gcontext.Set", "ok")
              /\ Has(backendTypes, MemcacheBackend) => Made("memcache.Set", "ok")
              /\ Has(backendTypes, DatastoreBackend) => Made("datastore.Put", "ok")

----------------------------------------------------------------------------
(* C7 *)

\* the Datastore holds for the loaded ID a record that is no longer valid
ExpiredInDatastore(id) ==
    /\ Has(backendTypes, DatastoreBackend)
    /\ Key(id) \in DOMAIN datastore
    /\ ~(now < datastore[Key(id)].ExpiresAt)

\* no backend call of the call just made reported a failure
NoFailure(calls) == \A i \in 1..Len(calls) : calls[i][2] # "err"

\* C7 as stated, taken where it is weakest: no backend call fails and the
\* Request tier holds nothing for the key.  Whatever Memcache holds, a load
\* that starts with an expired Datastore record returns not-found and leaves
\* the key in no tier.
C7_ExpiredAlwaysCleaned ==
    [][ ( /\ ret'.op = "New" /\ ret'.id # "" /\ ExpiredInDatastore(ret'.id)
          /\ Key(ret'.id) \notin DOMAIN request
          /\ NoFailure(ret'.calls) )
        => /\ ~ret'.ok
           /\ Key(ret'.id) \notin DOMAIN request'
           /\ Key(ret'.id) \notin DOMAIN memcache'
           /\ Key(ret'.id) \notin DOMAIN datastore' ]_vars

\* C7, amended: when load reaches the Datastore read (the Request tier holds
\* nothing for the key, Memcache is disabled or misses, no read fails) and the
\* Datastore holds an expired record, load returns not-found and runs the
\* delete cascade; when no delete of the cascade reports a failure the key is
\* left in no tier.
C7_ExpiredCleanedWhenReached ==
    [][ ( /\ ret'.op = "New" /\ ret'.id # "" /\ ExpiredInDatastore(ret'.id)
          /\ Key(ret'.id) \notin DOMAIN request
          /\ Key(ret'.id) \notin DOMAIN memcache
          /\ <<"memcache.Get", "err">> \notin {ret'.calls[i] : i \in 1..Len(ret'.calls)}
          /\ <<"datastore.Get", "err">> \notin {ret'.calls[i] : i \in 1..Len(ret'.calls)} )
        => /\ ~ret'.ok
           /\ \E i \in 1..Len(ret'.calls) :
                 \/ ret'.calls[i][1] = "datastore.Delete"
                 \/ ret'.calls[i] = <<"memcache.Delete", "err">>
           /\ NoFailure(ret'.calls)
                 => /\ Key(ret'.id) \notin DOMAIN request'
                    /\ Key(ret'.id) \notin DOMAIN memcache'
                    /\ Key(ret'.id) \notin DOMAIN datastore' ]_vars

\* a load on a store with all tiers that found the expired record and deleted it
C7_Witness ==
    /\ LoadedNow /\ ~ret.ok
    /\ backendTypes = AllBackends
    /\ Made("datastore.Get", "ok")
    /\ Made("datastore.Delete", "ok")
    /\ Key(ret.id) \notin DOMAIN datastore

----------------------------------------------------------------------------
(* C8 *)

\* C8: when the delete cascade of a logout has returned without error and the
\* next call loads the same ID, load reports not-found.
C8_DeleteThenLoad ==
    [][ (LoggedOutNow /\ ret.cerr = Nil /\ ret'.op = "New" /\ ret'.id = ret.id)
        => ~ret'.ok ]_vars

----------------------------------------------------------------------------
(* C9 *)

\* C9: in delete a cache miss is not returned and the cascade goes on to the
\* Datastore; any other error of Memcache or the Datastore ends the cascade
\* and is returned by delete as a non-nil error.
C9_DeleteErrorPolicy ==
    LoggedOutNow =>
        /\ Made("memcache.Delete", "miss") =>
              /\ ret.cerr # ErrCacheMiss
              /\ Has(backendTypes, DatastoreBackend) =>
                    \E i \in 1..Len(ret.calls) : ret.calls[i][1] = "datastore.Delete"
        /\ AnyFailed =>
              /\ ret.calls[Len(ret.calls)][2] = "err"
              /\ ret.cerr # Nil

----------------------------------------------------------------------------
(* C10 *)

DeleteCalls == {"gcontext.Delete", "memcache.Delete", "datastore.Delete"}

\* C10: a Save of a session with negative max-age runs the delete cascade for
\* the session's key (deletes are its only backend calls, starting with the
\* first enabled tier), adds or changes no record in any tier, and sets a
\* cookie with empty value and the negative max-age, with or without an ID.
C10_Logout ==
    [][ (ret'.op = "Save" /\ ret'.maxAge < 0)
        => /\ \A i \in 1..Len(ret'.calls) : ret'.calls[i][1] \in DeleteCalls
           /\ backendTypes # 0 => Len(ret'.calls) >= 1
           /\ Has(backendTypes, RequestBackend) => ret'.calls[1][1] = "gcontext.Delete"
           /\ \A k \in DOMAIN request' : k \in DOMAIN request /\ request'[k] = request[k]
           /\ \A k \in DOMAIN memcache' : k \in DOMAIN memcache /\ memcache'[k] = memcache[k]
           /\ \A k \in DOMAIN datastore' : k \in DOMAIN datastore /\ datastore'[k] = datastore[k]
           /\ ret'.cookie = <<[Value |-> "", MaxAge |-> ret'.maxAge]>> ]_vars

\* a logout of a session with an ID whose Memcache delete failed: the cookie
\* is cleared all the same
C10_Witness ==
    /\ LoggedOutNow /\ ret.id # ""
    /\ Failed("memcache.Delete")
    /\ Key(ret.id) \in DOMAIN datastore
    /\ ret.cookie = <<[Value |-> "", MaxAge |-> -1]>>

\* a logout of a session that never had an ID
C10_WitnessNoID ==
    /\ LoggedOutNow /\ ret.id = ""
    /\ backendTypes = AllBackends
    /\ ret.cookie # <<>>

----------------------------------------------------------------------------
(* C11 *)

\* C11: New returns a nil error whatever the cookie: absent, rejected by the
\* codec, or naming a session whose load fails.
C11_NewNeverFails ==
    ret.op = "New" => ret.err = Nil

----------------------------------------------------------------------------
(* C12 *)

\* the record a tier offers to a load at the current time, <<>> when none
Live(tier, id) ==
    IF Key(id) \in DOMAIN tier
       /\ ("ExpiresAt" \in DOMAIN tier[Key(id)] => now < tier[Key(id)].ExpiresAt)
    THEN <<tier[Key(id)].Value>> ELSE <<>>

\* C12: after New the session is not new exactly when the cookie was present
\* and decoded and load returned found with no error.  The session is new
\* when a backend call failed, when load panicked, and when no tier held a
\* record that is still valid; a session that is not new carries the values of
\* such a record.
C12_IsNewFlag ==
    [][ ret'.op = "New"
        => /\ ~ret'.isNew <=> ( /\ cookie # <<>> /\ CanDecodeMulti(cookie[1])
                                /\ ret'.ok /\ ret'.cerr = Nil )
           /\ ~NoFailure(ret'.calls) => ret'.isNew
           /\ ret'.panic # Nil => ret'.isNew
           /\ ~ret'.isNew =>
                 \E tier \in {request, memcache, datastore} :
                    /\ Live(tier, ret'.id) # <<>>
                    /\ ret'.values = Deserialize(Live(tier, ret'.id)[1]) ]_vars

\* a New that found the session in the Datastore after a Memcache miss
C12_Witness ==
    /\ LoadedNow /\ ~ret.isNew /\ ret.values # <<>>
    /\ Made("memcache.Get", "miss")
    /\ Made("datastore.Get", "ok")

\* a New whose cookie was good and whose load found only an expired record
C12_WitnessExpired ==
    /\ LoadedNow /\ ret.isNew
    /\ Made("datastore.Get", "ok")
    /\ Made("datastore.Delete", "ok")

----------------------------------------------------------------------------
(* C13 *)

\* C13: a failing Memcache or Datastore read makes load return found=false
\* with that tier's error, and load never returns a cache miss or a
\* not-found as its error.
C13_LoadSurfacesFailure ==
    LoadedNow =>
        /\ Failed("memcache.Get") => (~ret.ok /\ ret.cerr = ErrMemcache)
        /\ Failed("datastore.Get") => (~ret.ok /\ ret.cerr = ErrDatastore)
        /\ ret.cerr \notin {ErrCacheMiss, ErrNoSuchEntity}

----------------------------------------------------------------------------
(* C18 *)

\* C18: when a tier supplies a record and Deserialize fails on it, load
\* returns found=false with the deserialization failure as its error,
\* whichever tier supplied the record.
C18_DeserializeFailureReturned ==
    (LoadedNow /\ ret.panic = ErrDeserialize)
        => (~ret.ok /\ ret.cerr = ErrDeserialize)

----------------------------------------------------------------------------
(* C15 *)

C15_WitnessOwn ==
    /\ SavedNow /\ ret.maxAge = DefaultExpireSeconds /\ now > 0
    /\ Made("gcontext.Set", "ok")
    /\ Made("memcache.Set", "ok")
    /\ Made("datastore.Put", "ok")

----------------------------------------------------------------------------
(* C16 *)

\* the tier a read call consults, 0 for a call that is not a read
ReadRank(name) ==
    IF name = "gcontext.Get" THEN 1
    ELSE IF name = "memcache.Get" THEN 2
    ELSE IF name = "datastore.Get" THEN 3 ELSE 0

\* C16: load reads only enabled tiers, in the order Request, Memcache,
\* Datastore, each at most once; a read comes before another read only when
\* it reported a miss or its tier held no record that was still valid;
\* no call at all follows a read that failed; and a load that returns found
\* ended with a read of a tier that held a valid record.
C16_LoadOrder ==
    [][ (ret'.op = "New" /\ ret'.id # "")
        => LET calls == ret'.calls
               reads == {i \in 1..Len(calls) : ReadRank(calls[i][1]) > 0}
               Hit(i) == /\ calls[i][2] = "ok"
                         /\ Live(tiers[ReadRank(calls[i][1])], ret'.id) # <<>>
           IN  /\ \A i \in reads :
                     Has(backendTypes, 2 ^ (ReadRank(calls[i][1]) - 1))
               /\ \A i, j \in reads :
                     i < j => /\ ReadRank(calls[i][1]) < ReadRank(calls[j][1])
                              /\ calls[i][2] \in {"miss", "ok"}
                              /\ ~Hit(i)
               /\ \A i \in reads : calls[i][2] = "err" => i = Len(calls)
               /\ ret'.ok => Len(calls) \in reads /\ Hit(Len(calls)) ]_vars

\* a load that read Memcache, missed, and went on to the Datastore
C16_Witness ==
    /\ LoadedNow /\ ret.ok
    /\ Len(ret.calls) = 3
    /\ ret.calls[1] = <<"gcontext.Get", "miss">>
    /\ ret.calls[2] = <<"memcache.Get", "miss">>
    /\ ret.calls[3] = <<"datastore.Get", "ok">>

\* a load that found the record in Memcache with the Datastore enabled
C16_WitnessHit ==
    /\ LoadedNow /\ ret.ok
    /\ Has(backendTypes, DatastoreBackend)
    /\ ret.calls[Len(ret.calls)] = <<"memcache.Get", "ok">>

----------------------------------------------------------------------------
(* C17 *)

\* C17: when the Request tier holds a record for the key, load returns it
\* as a hit while now < expiresAt; when it has expired, load removes it from
\* the Request tier, leaves the other tiers alone unless it cleans an expired
\* Datastore record, and returns the record Memcache or the Datastore holds.
C17_RequestTierLoad ==
    [][ ( /\ ret'.op = "New" /\ ret'.id # ""
          /\ Has(backendTypes, RequestBackend)
          /\ Key(ret'.id) \in DOMAIN request
          /\ NoFailure(ret'.calls)
          /\ ret'.panic # ErrDeserialize )
        => LET key == Key(ret'.id)
           IN  IF now < request[key].ExpiresAt
               THEN /\ ret'.ok
                    /\ ret'.values = Deserialize(request[key].Value)
                    /\ ret'.calls = <<<<"gcontext.Get", "ok">>>>
                    /\ UNCHANGED <<request, memcache, datastore>>
               ELSE /\ key \notin DOMAIN request'
                    /\ memcache' = memcache
                    /\ Live(memcache, ret'.id) # <<>> =>
                          /\ ret'.ok /\ datastore' = datastore
                          /\ ret'.values = Deserialize(Live(memcache, ret'.id)[1])
                    /\ (Live(memcache, ret'.id) = <<>>
                          /\ Live(datastore, ret'.id) # <<>>) =>
                          /\ ret'.ok /\ datastore' = datastore
                          /\ ret'.values = Deserialize(Live(datastore, ret'.id)[1]) ]_vars

----------------------------------------------------------------------------
(* C14 *)

\* the store of the example: Memcache and Datastore, values up to 4096 bytes
ExampleStore ==
    /\ backendTypes = DistributedBackends
    /\ maxLength = MaxValueLength

\* the step is an error-free Save of a session that New handed out without
\* an ID, given a payload, its options (the copy of the store options) as
\* New left them
FreshDefaultSave ==
    /\ ExampleStore
    /\ session = <<"">>
    /\ ret'.op = "Save" /\ ret'.err = Nil /\ NoFailure(ret'.calls)
    /\ ret'.values # <<>>
    /\ ret'.maxAge = NewSession.MaxAge

\* the step is an error-free load, ttl after a save of the example wrote
\* the record the Datastore holds, or later; Memcache holds that record
\* too unless its item has run out
LoadAfter(ttl) ==
    /\ ExampleStore
    /\ ret'.op = "New" /\ ret'.id # "" /\ NoFailure(ret'.calls)
    /\ ret'.panic = Nil
    /\ Key(ret'.id) \in DOMAIN datastore
    /\ Len(datastore[Key(ret'.id)].Value) > 1
    /\ now >= datastore[Key(ret'.id)].ExpiresAt - Age(NewSession) + ttl
    /\ Key(ret'.id) \in DOMAIN memcache =>
          /\ memcache[Key(ret'.id)].Value = datastore[Key(ret'.id)].Value
          /\ memcache[Key(ret'.id)].Deadline = datastore[Key(ret'.id)].ExpiresAt

\* C14 as stated: the save of the example gives the session an ID and writes
\* to both tiers the record with expiresAt = now + 1200, and a load 1200 s
\* later or more returns not-found and leaves the key in neither tier.
C14_DefaultTTLExample ==
    [][ /\ FreshDefaultSave =>
              /\ ret'.id \in IDs
              /\ Holds(memcache', ret'.id,
                       [Value |-> Serialize(ret'.values),
                        ExpiresAt |-> now + DefaultMaxAgeSeconds])
              /\ Holds(datastore', ret'.id,
                       [Value |-> Serialize(ret'.values),
                        ExpiresAt |-> now + DefaultMaxAgeSeconds])
        /\ LoadAfter(DefaultMaxAgeSeconds) =>
              /\ ~ret'.ok
              /\ Key(ret'.id) \notin DOMAIN memcache'
              /\ Key(ret'.id) \notin DOMAIN datastore' ]_vars

\* C14, amended: the record carries expiresAt = now + 2592000, the max-age of
\* the store options the session copied, and a load 1200 s later still finds
\* it and leaves both tiers as they were.
C14_OptionsTTLExample ==
    [][ /\ FreshDefaultSave =>
              /\ ret'.id \in IDs
              /\ Holds(memcache', ret'.id,
                       [Value |-> Serialize(ret'.values),
                        ExpiresAt |-> now + DefaultExpireSeconds])
              /\ Holds(datastore', ret'.id,
                       [Value |-> Serialize(ret'.values),
                        ExpiresAt |-> now + DefaultExpireSeconds])
        /\ LoadAfter(DefaultMaxAgeSeconds) =>
              /\ ret'.ok
              /\ ret'.values = Deserialize(datastore[Key(ret'.id)].Value)
              /\ UNCHANGED <<memcache, datastore>> ]_vars

\* the example's save has happened
C14_WitnessSave ==
    /\ ExampleStore
    /\ SavedNow /\ ret.err = Nil /\ ret.values # <<>>
    /\ ret.maxAge = NewSession.MaxAge
    /\ Holds(memcache, ret.id, SavedRecord)
    /\ Holds(datastore, ret.id, SavedRecord)
    /\ cookie = <<>>

\* the example's load has happened, 1200 s after the save
C14_Witness ==
    /\ ExampleStore
    /\ LoadedNow /\ ret.ok /\ ret.values # <<>>
    /\ now = DefaultMaxAgeSeconds
    /\ Key(ret.id) \in DOMAIN memcache
    /\ Holds(datastore, ret.id,
             [Value |-> Serialize(ret.values), ExpiresAt |-> DefaultExpireSeconds])

----------------------------------------------------------------------------
(* C19 *)

\* request p is in the delete cascade load started and takes a step
CleanupStep(p) ==
    /\ reqs[p].pc \in {"delete.memcache", "delete.datastore"}
    /\ reqs'[p] # reqs[p]

\* C19, at the Datastore: whatever the interleaving, the delete cascade load
\* starts after it read an expired Datastore record removes from the
\* Datastore only a record whose expiresAt is not in the future.
C19_CleanupRemovesOnlyExpired ==
    [][ \A p \in Requests :
          CleanupStep(p) =>
             \A k \in DOMAIN datastore \ DOMAIN datastore' :
                 ~(now < datastore[k].ExpiresAt) ]_vars

----------------------------------------------------------------------------
(* C20 *)

\* the record the save of request p writes
RecordOf(p) ==
    [Value |-> Serialize(reqs[p].sess.Values),
     ExpiresAt |-> reqs[p].t +
        (IF reqs[p].sess.MaxAge # 0 THEN reqs[p].sess.MaxAge
                                    ELSE DefaultMaxAgeSeconds)]

\* both requests have saved different payloads under one ID and returned,
\* on a store of Memcache and Datastore, and no time has passed
BothSaved ==
    /\ backendTypes = DistributedBackends
    /\ \A p \in Requests : /\ reqs[p].pc = "done" /\ reqs[p].op = "save"
                           /\ reqs[p].t = now
                           /\ reqs[p].sess.ID = reqs["r1"].sess.ID
    /\ reqs["r1"].sess.Values # reqs["r2"].sess.Values

\* C20: once both saves have returned, Memcache and the Datastore hold the
\* same record, and it is the record of one of the two saves.
C20_TiersAgree ==
    BothSaved =>
        \E p \in Requests :
            /\ Holds(memcache, reqs[p].sess.ID, RecordOf(p))
            /\ Holds(datastore, reqs[p].sess.ID, RecordOf(p))

\* C20, amended: once both saves have returned, Memcache holds the whole
\* record of one of the two saves and so does the Datastore.
C20_EachTierWhole ==
    BothSaved =>
        /\ \E p \in Requests : Holds(memcache, reqs[p].sess.ID, RecordOf(p))
        /\ \E p \in Requests : Holds(datastore, reqs[p].sess.ID, RecordOf(p))

\* the two tiers hold the records of different saves
C20_Witness ==
    /\ BothSaved
    /\ memcache[Key(reqs["r1"].sess.ID)].Value
         # datastore[Key(reqs["r1"].sess.ID)].Value

====
